---- MODULE Spec2Model ----
(***************************************************************************)
(* State-machine model of postgrest/_async/request_builder.py: the root    *)
(* request builder, the select/filter builders, and the three executors    *)
(* (query, single-row, maybe-single) with their response classification.   *)
(* Python strings are sequences of one-character strings, so that the      *)
(* substring test of the maybe-single executor is computed, not assumed.   *)
(***************************************************************************)
EXTENDS Integers, Sequences, FiniteSets, TLC

VARIABLES objs, hdrs, nSent, nExec, last

vars == <<objs, hdrs, nSent, nExec, last>>

(* ---------------------------- bounds ---------------------------------- *)
MaxObjs == 2
MaxCalls == 2
MaxRows == 2
MaxPad == 1
MaxAnswers == 1

(* ------------------------- Python values ------------------------------ *)
PyNone == [tag |-> "none"]
PyStr(s) == [tag |-> "str", v |-> s]
PyInt(n) == [tag |-> "int", v |-> n]

RECURSIVE StartsWith(_, _)
StartsWith(s, p) ==
  IF p = <<>> THEN TRUE
  ELSE IF s = <<>> THEN FALSE
  ELSE Head(s) = Head(p) /\ StartsWith(Tail(s), Tail(p))

RECURSIVE Contains(_, _)
Contains(s, sub) ==
  IF StartsWith(s, sub) THEN TRUE
  ELSE IF s = <<>> THEN FALSE
  ELSE Contains(Tail(s), sub)

ZeroRowsText == <<"R", "e", "s", "u", "l", "t", "s", " ", "c", "o", "n", "t", "a", "i", "n", " ", "0", " ", "r", "o", "w", "s">>
OneRowText == <<"R", "e", "s", "u", "l", "t", "s", " ", "c", "o", "n", "t", "a", "i", "n", " ", "1", " ", "r", "o", "w", "s">>
CutRowsText == <<"R", "e", "s", "u", "l", "t", "s", " ", "c", "o", "n", "t", "a", "i", "n", " ", "0", " ", "r", "o", "w">>

(* ------------------------- JSON bodies -------------------------------- *)
JArr(items) == [t |-> "array", items |-> items]
JObj(f) == [t |-> "object", f |-> f]

Rows == {JObj([k \in {"id"} |-> PyInt(i)]) : i \in 1..2}

RECURSIVE SeqsUpTo(_, _)
SeqsUpTo(S, n) ==
  IF n = 0 THEN {<<>>}
  ELSE LET shorter == SeqsUpTo(S, n - 1)
       IN shorter \cup {Append(s, x) : s \in {q \in shorter : Len(q) = n - 1}, x \in S}

Pads == SeqsUpTo({"x"}, MaxPad)
Cores == {<<>>, ZeroRowsText, OneRowText, CutRowsText}
DetailTexts == {p \o c \o s : p \in Pads, c \in Cores, s \in Pads}
DetailValues == {PyNone} \cup {PyStr(d) : d \in DetailTexts}

ErrBody(m, c, h, d) ==
  JObj([k \in {"message", "code", "hint", "details"} |->
          CASE k = "message" -> m [] k = "code" -> c [] k = "hint" -> h [] OTHER -> d])

ErrBodies ==
  {ErrBody(PyStr(<<"m">>), PyStr(<<"P", "G", "R", "S", "T", "1", "1", "6">>), PyNone, d) :
     d \in DetailValues}
  \cup {ErrBody(PyStr(<<"n">>), PyNone, PyStr(<<"h">>), d) : d \in {PyNone, PyStr(ZeroRowsText)}}
  \cup {JObj([k \in {"message"} |-> PyStr(<<"m">>)])}

ArrayBodies == {JArr(s) : s \in SeqsUpTo(Rows, MaxRows)}
Bodies == ArrayBodies \cup Rows \cup ErrBodies

StatusCodes == {199, 200, 299, 300, 404}
CountedStatusCodes == {200, 404}

\* every status with every body; a reported row count on two of the statuses
Responses ==
  [kind : {"response"}, status_code : StatusCodes, body : Bodies, count : {PyNone}]
  \cup [kind : {"response"}, status_code : CountedStatusCodes, body : Bodies,
        count : {PyInt(2)}]
TransportFailure == [kind |-> "failure"]
TransportResults == Responses \cup {TransportFailure}

(* ------------------- collaborators (not in this file) ------------------ *)
HeaderNames == {"Accept", "Prefer"}
NoHeaders == [k \in HeaderNames |-> <<>>]
AcceptObject == <<"application/vnd.pgrst.object+json">>

CountMethods == {"none", "exact"}
CountPref(count) == IF count = "none" THEN <<>> ELSE <<"count=" \o count>>

pre_select(count) ==
  [method |-> "GET", params |-> <<"select=*">>,
   headers |-> [NoHeaders EXCEPT !["Prefer"] = CountPref(count)], json |-> "{}"]

pre_insert(json, count, upsert) ==
  [method |-> "POST", params |-> <<>>,
   headers |-> [NoHeaders EXCEPT !["Prefer"] =
                  <<"return=representation">> \o CountPref(count)
                  \o (IF upsert THEN <<"resolution=merge-duplicates">> ELSE <<>>)],
   json |-> json]

pre_upsert(json, count, ignore_duplicates) ==
  [method |-> "POST", params |-> <<>>,
   headers |-> [NoHeaders EXCEPT !["Prefer"] =
                  <<"return=representation">> \o CountPref(count)
                  \o (IF ignore_duplicates THEN <<"resolution=ignore-duplicates">>
                      ELSE <<"resolution=merge-duplicates">>)],
   json |-> json]

pre_update(json, count) ==
  [method |-> "PATCH", params |-> <<>>,
   headers |-> [NoHeaders EXCEPT !["Prefer"] = <<"return=representation">> \o CountPref(count)],
   json |-> json]

pre_delete(count) ==
  [method |-> "DELETE", params |-> <<>>,
   headers |-> [NoHeaders EXCEPT !["Prefer"] = <<"return=representation">> \o CountPref(count)],
   json |-> "{}"]

Get(body, key) ==
  IF body.t = "object" /\ key \in DOMAIN body.f THEN body.f[key] ELSE PyNone

APIError(error) ==
  [type |-> "APIError", message |-> Get(error, "message"), code |-> Get(error, "code"),
   hint |-> Get(error, "hint"), details |-> Get(error, "details"), raw |-> error]

ValidationError == [type |-> "ValidationError"]
TransportError == [type |-> "TransportError"]

Return(v) == [kind |-> "return", value |-> v]
Raise(e) == [kind |-> "raise", exc |-> e]

APIResponse_from_http_request_response(r) ==
  IF r.body.t = "array"
  THEN Return([type |-> "APIResponse", data |-> r.body.items, count |-> r.count])
  ELSE Raise(ValidationError)

SingleAPIResponse_from_http_request_response(r) ==
  IF r.body.t = "object"
  THEN Return([type |-> "SingleAPIResponse", data |-> r.body, count |-> r.count])
  ELSE Raise(ValidationError)

SingleAPIResponse_from_dict(data, count) ==
  [type |-> "SingleAPIResponse", data |-> data, count |-> count]

(* ------------------------------ executors ------------------------------ *)
Request(self, H) ==
  [http_method |-> self.http_method, path |-> self.path, json |-> self.json,
   params |-> self.params, headers |-> H[self.headers]]

IsOk_NoUpper(status_code) == 200 <= status_code

IsOk_StrictLower(status_code) == 200 < status_code /\ status_code <= 299

IsOk(status_code) == 200 <= status_code /\ status_code <= 299

QueryTry(r) ==
  IF IsOk(r.status_code)
  THEN APIResponse_from_http_request_response(r)
  ELSE Raise(APIError(r.body))

QueryExecute_NoExcept(self, H, tr) ==
  LET out == IF tr.kind = "failure" THEN Raise(TransportError) ELSE QueryTry(tr)
  IN [reqs |-> <<Request(self, H)>>, inner |-> out, out |-> out]

QueryExecute(self, H, tr) ==
  LET out == IF tr.kind = "failure" THEN Raise(TransportError)
             ELSE LET t == QueryTry(tr)
                  IN IF t.kind = "raise" /\ t.exc.type = "ValidationError"
                     THEN Raise(APIError(tr.body))
                     ELSE t
  IN [reqs |-> <<Request(self, H)>>, inner |-> out, out |-> out]

SingleTry(r) ==
  IF IsOk(r.status_code)
  THEN SingleAPIResponse_from_http_request_response(r)
  ELSE Raise(APIError(r.body))

SingleExecute_Recovers(self, H, tr) ==
  LET out == IF tr.kind = "failure" THEN Raise(TransportError)
             ELSE LET t == SingleTry(tr)
                  IN IF t.kind = "raise" /\ t.exc.type = "ValidationError"
                     THEN Raise(APIError(tr.body))
                     ELSE IF t.kind = "raise" /\ t.exc.details.tag = "str"
                             /\ Contains(t.exc.details.v, ZeroRowsText)
                          THEN Return(SingleAPIResponse_from_dict(PyNone, PyInt(0)))
                          ELSE t
  IN [reqs |-> <<Request(self, H)>>, inner |-> out, out |-> out]

SingleExecute(self, H, tr) ==
  LET out == IF tr.kind = "failure" THEN Raise(TransportError)
             ELSE LET t == SingleTry(tr)
                  IN IF t.kind = "raise" /\ t.exc.type = "ValidationError"
                     THEN Raise(APIError(tr.body))
                     ELSE t
  IN [reqs |-> <<Request(self, H)>>, inner |-> out, out |-> out]

\* the backquote character, which a TLA+ string literal cannot hold
Backquote == "backquote"

Truthy(x) == x.tag = "str" /\ Len(x.v) > 0

MissingResponse ==
  ErrBody(PyStr(<<"M", "i", "s", "s", "i", "n", "g", " ", "r", "e", "s", "p", "o", "n", "s", "e">>), PyStr(<<"2", "0", "4">>), PyStr(<<"P", "l", "e", "a", "s", "e", " ", "c", "h", "e", "c", "k", " ", "t", "r", "a", "c", "e", "b", "a", "c", "k", " ", "o", "f", " ", "t", "h", "e", " ", "c", "o", "d", "e">>), PyStr(<<"P", "o", "s", "t", "g", "r", "e", "s", "t", " ", "c", "o", "u", "l", "d", "n", "'", "t", " ", "r", "e", "t", "r", "i", "e", "v", "e", " ", "r", "e", "s", "p", "o", "n", "s", "e", ",", " ", "p", "l", "e", "a", "s", "e", " ", "c", "h", "e", "c", "k", " ", "t", "r", "a", "c", "e", "b", "a", "c", "k", " ", "o", "f", " ", "t", "h", "e", " ", "c", "o", "d", "e", ".", " ", "P", "l", "e", "a", "s", "e", " ", "c", "r", "e", "a", "t", "e", " ", "a", "n", " ", "i", "s", "s", "u", "e", " ", "i", "n", " ", Backquote, "s", "u", "p", "a", "b", "a", "s", "e", "-", "c", "o", "m", "m", "u", "n", "i", "t", "y", "/", "p", "o", "s", "t", "g", "r", "e", "s", "t", "-", "p", "y", Backquote, " ", "i", "f", " ", "n", "e", "e", "d", "e", "d", ".">>))

MaybeSingleExecute_ExactMatch(self, H, tr) ==
  LET s == SingleExecute(self, H, tr)
      out == IF s.out.kind = "raise"
             THEN IF s.out.exc.type = "APIError"
                  THEN IF s.out.exc.details = PyStr(ZeroRowsText)
                       THEN Return(SingleAPIResponse_from_dict(PyNone, PyInt(0)))
                       ELSE Raise(APIError(MissingResponse))
                  ELSE s.out
             ELSE s.out
  IN [reqs |-> s.reqs, inner |-> s.out, out |-> out]

MaybeSingleExecute_Retry(self, H, tr) ==
  LET s == SingleExecute(self, H, tr)
      zero == /\ s.out.kind = "raise"
              /\ s.out.exc.type = "APIError"
              /\ Truthy(s.out.exc.details)
              /\ Contains(s.out.exc.details.v, ZeroRowsText)
      out == IF s.out.kind = "raise"
             THEN IF s.out.exc.type = "APIError"
                  THEN IF zero
                       THEN Return(SingleAPIResponse_from_dict(PyNone, PyInt(0)))
                       ELSE Raise(APIError(MissingResponse))
                  ELSE s.out
             ELSE s.out
  IN [reqs |-> IF zero THEN s.reqs \o s.reqs ELSE s.reqs, inner |-> s.out, out |-> out]

\* r is None unless super().execute() returned; a returned response object is truthy
MaybeSingleExecute(self, H, tr) ==
  LET s == SingleExecute(self, H, tr)
      out == IF s.out.kind = "raise"
             THEN IF s.out.exc.type = "APIError"
                  THEN IF Truthy(s.out.exc.details) /\ Contains(s.out.exc.details.v, ZeroRowsText)
                       THEN Return(SingleAPIResponse_from_dict(PyNone, PyInt(0)))
                       ELSE Raise(APIError(MissingResponse))
                  ELSE s.out
             ELSE s.out
  IN [reqs |-> s.reqs, inner |-> s.out, out |-> out]

Execute(self, H, tr) ==
  CASE self.cls = "Single" -> SingleExecute(self, H, tr)
    [] self.cls = "MaybeSingle" -> MaybeSingleExecute(self, H, tr)
    [] OTHER -> QueryExecute(self, H, tr)

(* ------------------------------ builders ------------------------------- *)
Paths == {"/items"}
Jsons == {"{a:1}"}

NewBuilder(cls, path, d, ref) ==
  [cls |-> cls, path |-> path, http_method |-> d.method, headers |-> ref,
   params |-> d.params, json |-> d.json, origin |-> 0]

Construct(cls, path, d) ==
  /\ Len(objs) < MaxObjs
  /\ hdrs' = Append(hdrs, d.headers)
  /\ objs' = Append(objs, NewBuilder(cls, path, d, Len(hdrs) + 1))
  /\ UNCHANGED <<nSent, nExec, last>>

\* selects carry a count preference, so that the Prefer header is set
SelectCounts == {"exact"}

select ==
  \E path \in Paths, count \in SelectCounts :
    Construct("Select", path, pre_select(count))

insert ==
  \E path \in Paths, json \in Jsons :
    Construct("Query", path, pre_insert(json, "none", FALSE))

upsert ==
  \E path \in Paths, json \in Jsons :
    Construct("Query", path, pre_upsert(json, "none", TRUE))

update ==
  \E path \in Paths, json \in Jsons :
    Construct("Filter", path, pre_update(json, "none"))

delete ==
  \E path \in Paths :
    Construct("Filter", path, pre_delete("none"))

Derive_Copy(cls, b) ==
  /\ hdrs' = Append(hdrs, [hdrs[objs[b].headers] EXCEPT !["Accept"] = AcceptObject])
  /\ objs' = Append(objs, [cls |-> cls, path |-> objs[b].path,
                           http_method |-> objs[b].http_method,
                           headers |-> Len(hdrs) + 1, params |-> objs[b].params,
                           json |-> objs[b].json, origin |-> b])

Derive_FreshHeaders(cls, b) ==
  /\ hdrs' = [hdrs EXCEPT ![objs[b].headers] = [NoHeaders EXCEPT !["Accept"] = AcceptObject]]
  /\ objs' = Append(objs, [cls |-> cls, path |-> objs[b].path,
                           http_method |-> objs[b].http_method,
                           headers |-> objs[b].headers, params |-> objs[b].params,
                           json |-> objs[b].json, origin |-> b])

Derive(cls, b) ==
  /\ hdrs' = [hdrs EXCEPT ![objs[b].headers]["Accept"] = AcceptObject]
  /\ objs' = Append(objs, [cls |-> cls, path |-> objs[b].path,
                           http_method |-> objs[b].http_method,
                           headers |-> objs[b].headers, params |-> objs[b].params,
                           json |-> objs[b].json, origin |-> b])

single(b) ==
  /\ objs[b].cls = "Select"
  /\ Len(objs) < MaxObjs
  /\ Derive("Single", b)
  /\ UNCHANGED <<nSent, nExec, last>>

maybe_single(b) ==
  /\ objs[b].cls = "Select"
  /\ Len(objs) < MaxObjs
  /\ Derive("MaybeSingle", b)
  /\ UNCHANGED <<nSent, nExec, last>>

\* a caller holding any alias of a header map assigns its Accept entry
OtherAccept == <<"application/json">>

SetHeader(o) ==
  /\ hdrs[objs[o].headers]["Accept"] # OtherAccept
  /\ hdrs' = [hdrs EXCEPT ![objs[o].headers]["Accept"] = OtherAccept]
  /\ UNCHANGED <<objs, nSent, nExec, last>>

execute(o, results) ==
  /\ nExec < MaxCalls
  /\ \E tr \in results :
       LET e == Execute(objs[o], hdrs, tr)
       IN /\ nSent' = nSent + Len(e.reqs)
          /\ last' = [obj |-> o, again |-> last.obj = o, cls |-> objs[o].cls, tr |-> tr,
                      reqs |-> e.reqs,
                      inner |-> e.inner, out |-> e.out]
  /\ nExec' = nExec + 1
  /\ UNCHANGED <<objs, hdrs>>

NoCall == [obj |-> 0]

(* ---- the builder chain: every operation, a sample of transport results ---- *)
SampleResults ==
  { [kind |-> "response", status_code |-> 200, body |-> JArr(<<>>), count |-> PyNone],
    [kind |-> "response", status_code |-> 200,
     body |-> JObj([k \in {"id"} |-> PyInt(1)]), count |-> PyNone],
    [kind |-> "response", status_code |-> 404,
     body |-> ErrBody(PyStr(<<"m">>), PyNone, PyNone, PyStr(ZeroRowsText)), count |-> PyNone],
    [kind |-> "response", status_code |-> 404,
     body |-> ErrBody(PyStr(<<"m">>), PyNone, PyNone, PyNone), count |-> PyNone],
    TransportFailure }

Init ==
  /\ objs = <<>>
  /\ hdrs = <<>>
  /\ nSent = 0
  /\ nExec = 0
  /\ last = NoCall

Next ==
  \/ select
  \/ insert
  \/ upsert
  \/ update
  \/ delete
  \/ \E b \in 1..Len(objs) : single(b)
  \/ \E b \in 1..Len(objs) : maybe_single(b)
  \/ \E o \in 1..Len(objs) : SetHeader(o)
  \/ \E o \in 1..Len(objs) : execute(o, SampleResults)

Spec == Init /\ [][Next]_vars

(* ---- response classification: built executors, every transport result ---- *)
Chain(root, d, derived) ==
  LET b == NewBuilder(root, "/items", d, 1)
  IN IF derived = "none"
     THEN [objs |-> <<b>>, hdrs |-> <<d.headers>>]
     ELSE [objs |-> <<b, [b EXCEPT !.cls = derived, !.origin = 1]>>,
           hdrs |-> <<[d.headers EXCEPT !["Accept"] = AcceptObject]>>]

Chains ==
  { Chain("Query", pre_insert("{a:1}", "none", FALSE), "none"),
    Chain("Filter", pre_update("{a:1}", "none"), "none"),
    Chain("Select", pre_select("exact"), "none"),
    Chain("Select", pre_select("none"), "Single"),
    Chain("Select", pre_select("none"), "MaybeSingle") }

InitExec ==
  /\ \E c \in Chains : objs = c.objs /\ hdrs = c.hdrs
  /\ nSent = 0
  /\ nExec = 0
  /\ last = NoCall

NextExec ==
  \E o \in 1..Len(objs) : nExec < MaxAnswers /\ execute(o, TransportResults)

SpecExec == InitExec /\ [][NextExec]_vars

(* ------------------------------ properties ----------------------------- *)
Called == last.obj # 0
GotResponse == Called /\ last.tr.kind = "response"
PlainClasses == {"Query", "Filter", "Select"}
IsAPIError(out) == out.kind = "raise" /\ out.exc.type = "APIError"
SuccessStatus(r) == r.status_code \in 200..299

SameFields(e, f) ==
  /\ e.message = f.message
  /\ e.code = f.code
  /\ e.hint = f.hint
  /\ e.details = f.details

HasZeroRowsText(d) ==
  /\ d.tag = "str"
  /\ \E i \in 1..Len(d.v) :
       /\ i + Len(ZeroRowsText) - 1 <= Len(d.v)
       /\ SubSeq(d.v, i, i + Len(ZeroRowsText) - 1) = ZeroRowsText

ErrKeys == {"message", "code", "hint", "details"}
ZeroRowsBody(r) ==
  /\ r.body.t = "object"
  /\ "details" \in DOMAIN r.body.f
  /\ HasZeroRowsText(r.body.f["details"])

\* C1: when the single-row execute under a maybe-single executor raises an
\* API Error whose details lack "Results contain 0 rows" (or are empty or
\* absent), the caller observes that same error: same message, code, hint
\* and details.
C1_OtherErrorReraised ==
  (GotResponse /\ last.cls = "MaybeSingle" /\ last.tr.body.t = "object"
     /\ IsAPIError(last.inner)
     /\ ~HasZeroRowsText(last.inner.exc.details))
  => (IsAPIError(last.out) /\ SameFields(last.out.exc, last.inner.exc))

\* C2: when the single-row execute under a maybe-single executor raises an
\* API Error whose details contain "Results contain 0 rows", execute()
\* returns a Single API Response with data null and count 0.
C2_ZeroRowsRecovered ==
  (Called /\ last.cls = "MaybeSingle" /\ IsAPIError(last.inner)
     /\ HasZeroRowsText(last.inner.exc.details))
  => /\ last.out.kind = "return"
     /\ last.out.value.type = "SingleAPIResponse"
     /\ last.out.value.data = PyNone
     /\ last.out.value.count = PyInt(0)

C2_Witness ==
  /\ Called /\ last.cls = "MaybeSingle" /\ IsAPIError(last.inner)
  /\ HasZeroRowsText(last.inner.exc.details)
  /\ last.inner.exc.details # PyStr(ZeroRowsText)
  /\ last.out.kind = "return"

\* C3: for a status code outside [200, 299] the query and single-row
\* executors never return a result; given an error body they raise an API
\* Error whose message, code, hint and details are the body's fields.
C3_ErrorStatusRaises ==
  (GotResponse /\ last.cls # "MaybeSingle" /\ ~SuccessStatus(last.tr))
  => /\ last.out.kind # "return"
     /\ last.tr.body.t = "object"
        => /\ IsAPIError(last.out)
           /\ \A k \in ErrKeys :
                last.out.exc[k] = IF k \in DOMAIN last.tr.body.f
                                  THEN last.tr.body.f[k] ELSE PyNone

C3_Witness ==
  /\ GotResponse /\ last.cls = "Single" /\ last.tr.status_code = 300
  /\ last.tr.body.t = "object" /\ DOMAIN last.tr.body.f = ErrKeys
  /\ last.tr.body.f["hint"] # PyNone
  /\ IsAPIError(last.out)

\* C4: for a status code in [200, 299], 200 and 299 included, and an array
\* body, a plain query executor returns an API Response whose data is the
\* body's rows in the same order; 199 and 300 do not return.
C4_SuccessReturnsRows ==
  (GotResponse /\ last.cls \in PlainClasses)
  => /\ (SuccessStatus(last.tr) /\ last.tr.body.t = "array")
        => /\ last.out.kind = "return"
           /\ last.out.value.type = "APIResponse"
           /\ last.out.value.data = last.tr.body.items
     /\ last.tr.status_code \in {199, 300} => last.out.kind # "return"

C4_Witness ==
  /\ GotResponse /\ last.cls = "Query" /\ last.tr.status_code = 200
  /\ last.tr.body.t = "array" /\ Len(last.tr.body.items) >= 2
  /\ last.tr.body.items[1] # last.tr.body.items[2]
  /\ last.out.kind = "return"

\* C5: the Missing-Response API Error (code "204") comes out of a
\* maybe-single execute() only when the single-row execute raised nothing.
C5_MissingOnlyWithoutException ==
  (GotResponse /\ last.cls = "MaybeSingle" /\ last.tr.body.t = "object"
     /\ IsAPIError(last.out) /\ last.out.exc.raw = MissingResponse)
  => last.inner.kind # "raise"

\* C7: every execute() sends exactly one request: after n calls the
\* transport has received n requests, whatever the outcomes.
C7_OneRequestPerCall ==
  /\ nSent = nExec
  /\ Called => Len(last.reqs) = 1

C7_Witness ==
  /\ nExec = 2 /\ nSent = 2
  /\ last.cls = "MaybeSingle" /\ last.again
  /\ GotResponse /\ ZeroRowsBody(last.tr) /\ last.out.kind = "return"

\* C8: a non-2xx answer whose error details contain "Results contain 0
\* rows" is raised as an API Error by the query and single-row executors;
\* only the maybe-single executor returns a result.
C8_OnlyMaybeSingleRecovers ==
  (GotResponse /\ ~SuccessStatus(last.tr) /\ ZeroRowsBody(last.tr))
  => /\ last.cls = "MaybeSingle" => last.out.kind = "return"
     /\ last.cls # "MaybeSingle"
        => IsAPIError(last.out) /\ last.out.exc.details = last.tr.body.f["details"]

C8_Witness ==
  /\ GotResponse /\ ~SuccessStatus(last.tr) /\ ZeroRowsBody(last.tr)
  /\ last.cls = "Single" /\ IsAPIError(last.out)

\* C9: on a 2xx status whose body does not validate as the expected
\* response, the query and single-row executors raise an API Error built
\* from the raw body; every answered call ends in a typed response or an
\* API Error.
ParseFails(cls, r) ==
  IF cls = "Single"
  THEN SingleAPIResponse_from_http_request_response(r).kind = "raise"
  ELSE APIResponse_from_http_request_response(r).kind = "raise"

DeriveStep(b) == Len(objs') = Len(objs) + 1 /\ objs'[Len(objs')].origin = b
ExecStep == nExec' # nExec

AliasedHeaders ==
  \A e \in 1..Len(objs) :
    objs[e].origin > 0
      => Request(objs[e], hdrs).headers = Request(objs[objs[e].origin], hdrs).headers

DeriveSetsAccept ==
  \A b \in 1..Len(objs) :
    DeriveStep(b)
      => /\ objs'[b].headers = objs[b].headers
         /\ hdrs'[objs[b].headers]["Accept"] = AcceptObject
         /\ objs'[Len(objs')].headers = objs[b].headers

ExecCarriesHeaders ==
  ExecStep => \A i \in 1..Len(last'.reqs) :
                last'.reqs[i].headers = hdrs[objs[last'.obj].headers]

\* C6: single() and maybe_single() set Accept to the object media type in
\* the builder's own header map, and the returned executor holds that same
\* map: requests of the builder and of the executor carry the same headers
\* at all times, also after a later change through either.
C6_SharedHeaderMap ==
  []AliasedHeaders /\ [][DeriveSetsAccept /\ ExecCarriesHeaders]_vars

C6_Witness ==
  /\ Called /\ objs[last.obj].cls = "Select"
  /\ \E e \in 1..Len(objs) : objs[e].origin = last.obj
  /\ last.reqs[1].headers["Accept"] = AcceptObject

ExecFrame ==
  ExecStep => /\ objs' = objs
              /\ hdrs' = hdrs
              /\ last'.reqs = <<Request(objs[last'.obj], hdrs)>>

DeriveFrame ==
  \A b \in 1..Len(objs) :
    DeriveStep(b)
      => /\ SubSeq(objs', 1, Len(objs)) = objs
         /\ Len(hdrs') = Len(hdrs)
         /\ \A h \in 1..Len(hdrs) :
              /\ h # objs[b].headers => hdrs'[h] = hdrs[h]
              /\ \A k \in HeaderNames \ {"Accept"} : hdrs'[h][k] = hdrs[h][k]
         /\ LET n == objs'[Len(objs')]
            IN /\ n.http_method = objs[b].http_method
               /\ n.path = objs[b].path
               /\ n.params = objs[b].params
               /\ n.json = objs[b].json
               /\ n.headers = objs[b].headers

ConstructFrame ==
  DeriveStep(0) => /\ SubSeq(objs', 1, Len(objs)) = objs
                   /\ SubSeq(hdrs', 1, Len(hdrs)) = hdrs

\* C10: execute() changes no descriptor and sends the request the
\* descriptor describes; single() and maybe_single() change nothing but the
\* Accept header and hand the other fields to the executor as they are; the
\* root operations leave existing descriptors alone.
C10_DescriptorFrame ==
  [][ExecFrame /\ DeriveFrame /\ ConstructFrame]_vars

C10_Witness ==
  /\ nExec = 2 /\ Called /\ last.again
  /\ objs[last.obj].origin > 0
  /\ last.reqs[1].headers["Prefer"] # <<>>
  /\ last.reqs[1].headers["Accept"] = AcceptObject

====
